---- MODULE Spec2Model ----
(***************************************************************************)
(* Connected components of a graph (src/src/components/index.js).          *)
(*                                                                         *)
(* The graph is the state the functions read (and, for the crop, mutate):  *)
(* `nodes` is the node list in enumeration order, `edges` the edge list in *)
(* insertion order, `type` the graph's type.  Every function of the module *)
(* is a call that starts from pc = "idle" (or from a finished call) and    *)
(* runs its loops one iteration per step, so that the working storage      *)
(* (seen, stack, P, S, preorder, assigned ...) is visible between steps.   *)
(***************************************************************************)
EXTENDS Integers, Sequences, FiniteSets, TLC

VARIABLES
  nodes,            \* graph: node keys in enumeration (insertion) order
  edges,            \* graph: edges in insertion order, [key, source, target, undirected]
  type,             \* graph.type: "directed" | "undirected" | "mixed"
  op,               \* the exported function being run
  pc,               \* position inside the running function
  todo,             \* nodes the running node iteration has still to hand out
  seen,             \* var seen = new Set()
  stack,            \* var stack = []
  component,        \* var component
  components,       \* var components = []
  largestComponent, \* var largestComponent = []
  remaining,        \* var remaining
  count,            \* var count = 1
  P,                \* var P = []
  S,                \* var S = []
  preorder,         \* var preorder = new Map()
  assigned,         \* var assigned = new Set()
  frames,           \* the call stack of DFS: [node, neighbors, k]
  result,           \* the value the call returned
  error,            \* "none", or the error the call threw
  subNodes,         \* nodes of the graph built by largestConnectedComponentSubgraph
  subEdges,         \* edges of that graph
  todoEdges,        \* edges the running edge iteration has still to hand out
  cropped           \* the graph is what a finished crop left

vars == <<nodes, edges, type, op, pc, todo, seen, stack, component, components,
          largestComponent, remaining, count, P, S, preorder, assigned, frames,
          result, error, subNodes, subEdges, todoEdges, cropped>>

graphVars == <<nodes, edges, type>>
weakVars == <<seen, stack, component, components, largestComponent, remaining>>
strongVars == <<count, P, S, preorder, assigned, frames>>
subVars == <<subNodes, subEdges, todoEdges>>

(***************************************************************************)
(* Bounds of the explored graphs.                                          *)
(***************************************************************************)
MaxNodes == 3
MaxEdges == 3

Types == {"directed", "undirected", "mixed"}

SeqToSet(s) == {s[i] : i \in DOMAIN s}

Last(s) == s[Len(s)]

Front(s) == SubSeq(s, 1, Len(s) - 1)

(***************************************************************************)
(* The graph access interface (graphology's Graph, outside this module's   *)
(* sources).  Adjacency is kept per node in three maps (in, out,           *)
(* undirected), each keyed by neighbor in order of first insertion.        *)
(***************************************************************************)
order == Len(nodes)

size == Len(edges)

hasNode(ns, key) == key \in SeqToSet(ns)

\* The neighbor an edge contributes to one adjacency map of `node`, as a
\* sequence of zero or one key.
Adjacent(e, node, dir) ==
  CASE dir = "in" ->
         IF ~e.undirected /\ e.target = node THEN <<e.source>> ELSE <<>>
    [] dir = "out" ->
         IF ~e.undirected /\ e.source = node THEN <<e.target>> ELSE <<>>
    [] OTHER ->
         IF e.undirected /\ e.source = node THEN <<e.target>>
         ELSE IF e.undirected /\ e.target = node THEN <<e.source>>
         ELSE <<>>

\* Appends to `acc` the keys of one adjacency map of `node` that `acc` does
\* not hold yet.
RECURSIVE forEachInObjectOnce(_, _, _, _)
forEachInObjectOnce(es, node, dir, acc) ==
  IF es = <<>> THEN acc
  ELSE LET a == Adjacent(Head(es), node, dir)
       IN forEachInObjectOnce(Tail(es), node, dir,
            IF a # <<>> /\ a[1] \notin SeqToSet(acc) THEN acc \o a ELSE acc)

\* graph.forEachNeighbor(node, cb): in, then out, then undirected neighbors,
\* each once.
Neighbors(node) ==
  forEachInObjectOnce(edges, node, "undirected",
    forEachInObjectOnce(edges, node, "out",
      forEachInObjectOnce(edges, node, "in", <<>>)))

\* graph.outboundNeighbors(node): out, then undirected neighbors, each once.
outboundNeighbors(node) ==
  forEachInObjectOnce(edges, node, "undirected",
    forEachInObjectOnce(edges, node, "out", <<>>))

\* graph.dropNode(key): the node and every edge attached to it.
dropNodeNodes(key) == SelectSeq(nodes, LAMBDA n : n # key)

dropNodeEdges(key) ==
  SelectSeq(edges, LAMBDA e : e.source # key /\ e.target # key)

(***************************************************************************)
(* addToStack, applied to each neighbor in turn: pushes the ones not seen. *)
(***************************************************************************)
RECURSIVE addToStack(_, _, _)
addToStack(stk, sn, targets) ==
  IF targets = <<>> THEN stk
  ELSE addToStack(IF Head(targets) \notin sn THEN Append(stk, Head(targets)) ELSE stk,
                  sn, Tail(targets))

\* if (seen.has(source)) continue, on the node just popped.
AlreadySeen_never(sn, source) == FALSE

AlreadySeen(sn, source) == source \in sn

\* Node keys are opaque strings; a graph with n nodes has the first n of
\* them, added in this order.
Keys == <<"a", "b", "c", "d", "e", "f">>

EdgeKinds(ks, t) ==
  [source : ks, target : ks,
   undirected : CASE t = "directed" -> {FALSE}
                  [] t = "undirected" -> {TRUE}
                  [] OTHER -> BOOLEAN]

Init ==
  /\ \E n \in 0..MaxNodes :
       /\ nodes = SubSeq(Keys, 1, n)
       /\ type \in Types
       /\ \E m \in 0..MaxEdges :
            \E f \in [1..m -> EdgeKinds(SeqToSet(SubSeq(Keys, 1, n)), type)] :
              edges = [i \in 1..m |->
                         [key |-> i, source |-> f[i].source,
                          target |-> f[i].target, undirected |-> f[i].undirected]]
  /\ op = "none"
  /\ pc = "idle"
  /\ todo = <<>>
  /\ seen = {}
  /\ stack = <<>>
  /\ component = <<>>
  /\ components = <<>>
  /\ largestComponent = <<>>
  /\ remaining = 0
  /\ count = 1
  /\ P = <<>>
  /\ S = <<>>
  /\ preorder = <<>>
  /\ assigned = {}
  /\ frames = <<>>
  /\ result = <<>>
  /\ error = "none"
  /\ subNodes = <<>>
  /\ subEdges = <<>>
  /\ todoEdges = <<>>
  /\ cropped = FALSE

\* A call starts with fresh working storage.
FreshStorage ==
  /\ seen' = {}
  /\ stack' = <<>>
  /\ component' = <<>>
  /\ largestComponent' = <<>>
  /\ remaining' = 0
  /\ count' = 1
  /\ P' = <<>>
  /\ S' = <<>>
  /\ preorder' = <<>>
  /\ assigned' = {}
  /\ frames' = <<>>
  /\ subNodes' = <<>>
  /\ subEdges' = <<>>
  /\ todoEdges' = <<>>

Fresh ==
  /\ FreshStorage
  /\ components' = <<>>
  /\ result' = <<>>
  /\ error' = "none"

Callable == pc \in {"idle", "done"}

(***************************************************************************)
(* connectedComponents(graph), through forEachConnectedComponent.          *)
(***************************************************************************)
connectedComponents ==
  /\ Callable
  /\ op' = "connectedComponents"
  /\ Fresh
  /\ IF order = 0
       THEN pc' = "done" /\ todo' = <<>>
       ELSE pc' = "fe_node" /\ todo' = nodes
  /\ UNCHANGED <<graphVars, cropped>>

\* graph.forEachNode(function (node) {...}) of forEachConnectedComponent:
\* the next node, up to the start of its while loop.
forEachConnectedComponent_node ==
  /\ pc = "fe_node"
  /\ IF todo = <<>>
       THEN /\ pc' = "done"
            /\ result' = components
            /\ UNCHANGED <<todo, stack, component>>
       ELSE IF Head(todo) \in seen
         THEN /\ todo' = Tail(todo)
              /\ UNCHANGED <<pc, result, stack, component>>
         ELSE /\ component' = <<>>
              /\ stack' = Append(stack, Head(todo))
              /\ pc' = "fe_while"
              /\ UNCHANGED <<todo, result>>
  /\ UNCHANGED <<graphVars, op, seen, components, largestComponent, remaining,
                 strongVars, error, subVars, cropped>>

\* One iteration of while (stack.length !== 0), or the callback after it.
forEachConnectedComponent_while ==
  /\ pc = "fe_while"
  /\ IF stack # <<>>
       THEN /\ LET source == Last(stack)
               IN IF AlreadySeen(seen, source)
                    THEN /\ stack' = Front(stack)
                         /\ UNCHANGED <<seen, component>>
                    ELSE /\ seen' = seen \cup {source}
                         /\ component' = Append(component, source)
                         /\ stack' = addToStack(Front(stack), seen', Neighbors(source))
            /\ UNCHANGED <<pc, todo, components>>
       ELSE /\ components' = Append(components, component)
            /\ todo' = Tail(todo)
            /\ pc' = "fe_node"
            /\ UNCHANGED <<seen, stack, component>>
  /\ UNCHANGED <<graphVars, op, largestComponent, remaining, strongVars, result,
                 error, subVars, cropped>>

(***************************************************************************)
(* largestConnectedComponent(graph), called directly or by the subgraph    *)
(* and crop functions.                                                     *)
(***************************************************************************)
largestConnectedComponent(caller) ==
  /\ Callable
  /\ op' = caller
  /\ Fresh
  /\ IF order = 0
       THEN pc' = "lcc_return" /\ todo' = <<>>
       ELSE pc' = "lcc_node" /\ todo' = nodes
  /\ UNCHANGED <<graphVars, cropped>>

\* graph.someNode(function (node) {...}): the next node, up to the start of
\* its while loop.  someNode stops when the nodes are exhausted.
largestConnectedComponent_node ==
  /\ pc = "lcc_node"
  /\ IF todo = <<>>
       THEN /\ pc' = "lcc_return"
            /\ UNCHANGED <<todo, stack, component>>
       ELSE IF Head(todo) \in seen
         THEN /\ todo' = Tail(todo)
              /\ UNCHANGED <<pc, stack, component>>
         ELSE /\ component' = <<>>
              /\ stack' = Append(stack, Head(todo))
              /\ pc' = "lcc_while"
              /\ UNCHANGED todo
  /\ UNCHANGED <<graphVars, op, seen, components, largestComponent, remaining,
                 strongVars, result, error, subVars, cropped>>

\* The early exit test: the largest component so far is larger than what
\* is left to visit.
EarlyExit_orEqual(largest, rem) == Len(largest) >= rem

EarlyExit(largest, rem) == Len(largest) > rem

\* if (component.length > largestComponent.length) largestComponent = component
Larger_orEqual(comp, largest) == IF Len(comp) >= Len(largest) THEN comp ELSE largest

Larger(comp, largest) == IF Len(comp) > Len(largest) THEN comp ELSE largest

\* One iteration of while (stack.length !== 0), or the end of the callback:
\* the update of largestComponent and the early exit test.
largestConnectedComponent_while ==
  /\ pc = "lcc_while"
  /\ IF stack # <<>>
       THEN /\ LET source == Last(stack)
               IN IF AlreadySeen(seen, source)
                    THEN /\ stack' = Front(stack)
                         /\ UNCHANGED <<seen, component>>
                    ELSE /\ seen' = seen \cup {source}
                         /\ component' = Append(component, source)
                         /\ stack' = addToStack(Front(stack), seen', Neighbors(source))
            /\ UNCHANGED <<pc, todo, largestComponent, remaining>>
       ELSE /\ largestComponent' = Larger(component, largestComponent)
            /\ remaining' = order - Cardinality(seen)
            /\ IF EarlyExit(largestComponent', remaining')
                 THEN pc' = "lcc_return" /\ UNCHANGED todo
                 ELSE pc' = "lcc_node" /\ todo' = Tail(todo)
            /\ UNCHANGED <<seen, stack, component>>
  /\ UNCHANGED <<graphVars, op, components, strongVars, result, error, subVars,
                 cropped>>

\* return largestComponent, to the caller.
largestConnectedComponent_return ==
  /\ pc = "lcc_return"
  /\ CASE op = "largestConnectedComponent" ->
            /\ result' = largestComponent
            /\ pc' = "done"
            /\ UNCHANGED <<todo, component, subVars>>
       [] op = "largestConnectedComponentSubgraph" ->
            \* var component = largestConnectedComponent(graph);
            \* var S = graph.nullCopy();
            /\ component' = largestComponent
            /\ todo' = largestComponent
            /\ subNodes' = <<>>
            /\ subEdges' = <<>>
            /\ todoEdges' = edges
            /\ pc' = "sub_nodes"
            /\ UNCHANGED result
       [] OTHER ->
            \* var component = new Set(largestConnectedComponent(graph));
            /\ component' = largestComponent
            /\ todo' = nodes
            /\ pc' = "crop"
            /\ UNCHANGED <<result, subVars>>
  /\ UNCHANGED <<graphVars, op, seen, stack, components, largestComponent,
                 remaining, strongVars, error, cropped>>

(***************************************************************************)
(* largestConnectedComponentSubgraph(graph).                               *)
(***************************************************************************)
largestConnectedComponentSubgraph == largestConnectedComponent("largestConnectedComponentSubgraph")

\* component.forEach(function (key) { copyNode(S, key, ...) })
copyNode ==
  /\ pc = "sub_nodes"
  /\ IF todo = <<>>
       THEN pc' = "sub_edges" /\ UNCHANGED <<todo, subNodes>>
       ELSE /\ subNodes' = Append(subNodes, Head(todo))
            /\ todo' = Tail(todo)
            /\ UNCHANGED pc
  /\ UNCHANGED <<graphVars, op, weakVars, strongVars, result, error, subEdges,
                 todoEdges, cropped>>

\* graph.forEachEdge(function (key, attr, source, target, ..., undirected) {
\*   if (S.hasNode(source)) copyEdge(S, undirected, key, source, target, attr) })
\* Adding an edge to S throws when an endpoint is not a node of S.
\* if (S.hasNode(source)), the test that guards copyEdge.
SourceInSubgraph_always(sn, e) == TRUE

SourceInSubgraph(sn, e) == hasNode(sn, e.source)

copyEdge ==
  /\ pc = "sub_edges"
  /\ IF todoEdges = <<>>
       THEN pc' = "done" /\ UNCHANGED <<subEdges, todoEdges, error>>
       ELSE LET e == Head(todoEdges)
            IN IF SourceInSubgraph(subNodes, e)
                 THEN IF hasNode(subNodes, e.target)
                        THEN /\ subEdges' = Append(subEdges, e)
                             /\ todoEdges' = Tail(todoEdges)
                             /\ UNCHANGED <<pc, error>>
                        ELSE /\ error' = "NotFoundGraphError"
                             /\ pc' = "done"
                             /\ UNCHANGED <<subEdges, todoEdges>>
                 ELSE /\ todoEdges' = Tail(todoEdges)
                      /\ UNCHANGED <<pc, subEdges, error>>
  /\ UNCHANGED <<graphVars, op, todo, weakVars, strongVars, result, subNodes,
                 cropped>>

(***************************************************************************)
(* cropToLargestConnectedComponent(graph).                                 *)
(***************************************************************************)
cropToLargestConnectedComponent == largestConnectedComponent("cropToLargestConnectedComponent")

\* graph.forEachNode(function (key) {
\*   if (!component.has(key)) graph.dropNode(key) })
\* The iteration skips a key that is no longer a node of the graph.
\* if (!component.has(key)), the test that guards graph.dropNode(key).
OutsideComponent_negated(comp, key) == key \in SeqToSet(comp)

OutsideComponent(comp, key) == key \notin SeqToSet(comp)

dropNode ==
  /\ pc = "crop"
  /\ IF todo = <<>>
       THEN /\ pc' = "done"
            /\ cropped' = TRUE
            /\ UNCHANGED <<nodes, edges, todo>>
       ELSE /\ todo' = Tail(todo)
            /\ IF hasNode(nodes, Head(todo)) /\ OutsideComponent(component, Head(todo))
                 THEN /\ nodes' = dropNodeNodes(Head(todo))
                      /\ edges' = dropNodeEdges(Head(todo))
                 ELSE UNCHANGED <<nodes, edges>>
            /\ UNCHANGED <<pc, cropped>>
  /\ UNCHANGED <<type, op, weakVars, strongVars, result, error, subVars>>

(***************************************************************************)
(* stronglyConnectedComponents(graph).                                     *)
(***************************************************************************)
\* for (i = 0, l = nodes.length; i < l; i++) components.push([nodes[i]])
Singletons_one(ns) == <<ns>>

Singletons(ns) == [i \in 1..Len(ns) |-> <<ns[i]>>]

stronglyConnectedComponents ==
  /\ Callable
  /\ op' = "stronglyConnectedComponents"
  /\ FreshStorage
  /\ IF order = 0
       THEN /\ result' = <<>>
            /\ error' = "none"
            /\ components' = <<>>
            /\ todo' = <<>>
            /\ pc' = "done"
       ELSE IF type = "undirected"
         THEN /\ result' = <<>>
              /\ error' = "undirected"
              /\ components' = <<>>
              /\ todo' = <<>>
              /\ pc' = "done"
         ELSE IF size = 0
           THEN /\ components' = Singletons(nodes)
                /\ result' = components'
                /\ error' = "none"
                /\ todo' = <<>>
                /\ pc' = "done"
           ELSE /\ components' = <<>>
                /\ result' = <<>>
                /\ error' = "none"
                /\ todo' = nodes
                /\ pc' = "scc_for"
  /\ UNCHANGED <<graphVars, cropped>>

\* The entry of DFS(node), under the frames of its callers:
\* preorder.set(node, count++); P.push(node); S.push(node)
DFS(node, callers) ==
  /\ preorder' = (node :> count) @@ preorder
  /\ count' = count + 1
  /\ P' = Append(P, node)
  /\ S' = Append(S, node)
  /\ frames' = Append(callers,
                 [node |-> node, neighbors |-> outboundNeighbors(node), k |-> 1])

\* if (!assigned.has(vertex)) DFS(vertex), the test of the outer loop.
Unvisited(vertex) == vertex \notin assigned

\* One iteration of the outer loop over nodes, up to the entry of DFS, or
\* return components.
stronglyConnectedComponents_for ==
  /\ pc = "scc_for"
  /\ IF todo = <<>>
       THEN /\ result' = components
            /\ pc' = "done"
            /\ UNCHANGED <<todo, strongVars>>
       ELSE /\ todo' = Tail(todo)
            /\ IF Unvisited(Head(todo))
                 THEN DFS(Head(todo), <<>>) /\ pc' = "scc_dfs" /\ UNCHANGED assigned
                 ELSE UNCHANGED <<pc, strongVars>>
            /\ UNCHANGED result
  /\ UNCHANGED <<graphVars, op, seen, stack, component, components,
                 largestComponent, remaining, error, subVars, cropped>>

\* while (preorder.get(P[P.length - 1]) > neighborOrder) P.pop()
RECURSIVE PopPath(_, _, _)
PopPath(path, pre, neighborOrder) ==
  IF path # <<>> /\ pre[Last(path)] > neighborOrder
    THEN PopPath(Front(path), pre, neighborOrder)
    ELSE path

\* The path after a neighbor that already has a preorder index.
Collapse_unguarded(path, pre, asg, neighbor) == PopPath(path, pre, pre[neighbor])

Collapse(path, pre, asg, neighbor) ==
  IF neighbor \notin asg THEN PopPath(path, pre, pre[neighbor]) ELSE path

\* One iteration of for (k = 0; k < n; k++) in the DFS call on top.
DFS_for ==
  /\ pc = "scc_dfs"
  /\ frames # <<>>
  /\ Last(frames).k <= Len(Last(frames).neighbors)
  /\ LET top == Last(frames)
         neighbor == top.neighbors[top.k]
         callers == Append(Front(frames), [top EXCEPT !.k = top.k + 1])
     IN IF neighbor \in DOMAIN preorder
          THEN /\ P' = Collapse(P, preorder, assigned, neighbor)
               /\ frames' = callers
               /\ UNCHANGED <<count, S, preorder>>
          ELSE DFS(neighbor, callers)
  /\ UNCHANGED <<graphVars, op, pc, todo, weakVars, assigned, result, error,
                 subVars, cropped>>

\* do { pop = S.pop(); component.push(pop); assigned.add(pop) } while (pop !== node)
\* as the pair of what is left of S and the component.  The node is on S
\* whenever the loop is entered; on an empty S the loop would not end.
RECURSIVE PopComponent(_, _, _)
PopComponent(stk, node, comp) ==
  IF stk = <<>> THEN <<stk, comp>>
  ELSE IF Last(stk) = node THEN <<Front(stk), Append(comp, node)>>
  ELSE PopComponent(Front(stk), node, Append(comp, Last(stk)))

\* assigned.add(pop), for every node popped into the component.
Assign_rootOnly(asg, comp) == asg \cup {Last(comp)}

Assign(asg, comp) == asg \cup SeqToSet(comp)

\* components.push(component)
Emit_front(comps, comp) == <<comp>> \o comps

Emit(comps, comp) == Append(comps, comp)

\* The end of the DFS call on top: the component it roots, if any, and the
\* return to its caller.
DFS_return ==
  /\ pc = "scc_dfs"
  /\ frames # <<>>
  /\ Last(frames).k > Len(Last(frames).neighbors)
  /\ LET node == Last(frames).node
     IN IF P # <<>> /\ preorder[Last(P)] = preorder[node]
          THEN LET popped == PopComponent(S, node, <<>>)
               IN /\ S' = popped[1]
                  /\ component' = popped[2]
                  /\ assigned' = Assign(assigned, popped[2])
                  /\ components' = Emit(components, popped[2])
                  /\ P' = Front(P)
          ELSE UNCHANGED <<S, component, assigned, components, P>>
  /\ frames' = Front(frames)
  /\ pc' = IF frames' = <<>> THEN "scc_for" ELSE "scc_dfs"
  /\ UNCHANGED <<graphVars, op, todo, seen, stack, largestComponent, remaining,
                 count, preorder, result, error, subVars, cropped>>

Next ==
  \/ connectedComponents
  \/ forEachConnectedComponent_node
  \/ forEachConnectedComponent_while
  \/ largestConnectedComponent("largestConnectedComponent")
  \/ largestConnectedComponent_node
  \/ largestConnectedComponent_while
  \/ largestConnectedComponent_return
  \/ largestConnectedComponentSubgraph
  \/ copyNode
  \/ copyEdge
  \/ cropToLargestConnectedComponent
  \/ dropNode
  \/ stronglyConnectedComponents
  \/ stronglyConnectedComponents_for
  \/ DFS_for
  \/ DFS_return

Spec == Init /\ [][Next]_vars

(***************************************************************************)
(* Reference notions the properties are stated against.                    *)
(***************************************************************************)
NodeSet == SeqToSet(nodes)

EdgeSet == SeqToSet(edges)

\* An edge joins a and b, whatever its direction.
Linked(a, b) ==
  \E e \in EdgeSet : \/ e.source = a /\ e.target = b
                     \/ e.source = b /\ e.target = a

\* An edge leads from a to b: a directed edge a -> b, or an undirected edge
\* between them.
Arc(a, b) ==
  \E e \in EdgeSet : \/ e.source = a /\ e.target = b
                     \/ e.undirected /\ e.source = b /\ e.target = a

RECURSIVE WeakClosure(_)
WeakClosure(X) ==
  LET Y == X \cup {b \in NodeSet : \E a \in X : Linked(a, b)}
  IN IF Y = X THEN X ELSE WeakClosure(Y)

RECURSIVE OutClosure(_)
OutClosure(X) ==
  LET Y == X \cup {b \in NodeSet : \E a \in X : Arc(a, b)}
  IN IF Y = X THEN X ELSE OutClosure(Y)

\* The nodes joined to n by a path that ignores edge direction.
WeakClass(n) == WeakClosure({n})

\* The nodes that reach n and that n reaches along outbound edges.
StrongClass(n) == {m \in OutClosure({n}) : n \in OutClosure({m})}

\* Every node of the graph is in exactly one component of the list, once.
IsPartition(list) ==
  /\ \A i \in DOMAIN list : list[i] # <<>> /\ SeqToSet(list[i]) \subseteq NodeSet
  /\ \A n \in NodeSet :
       Cardinality({ij \in UNION {{<<i, j>> : j \in DOMAIN list[i]} : i \in DOMAIN list} :
                      list[ij[1]][ij[2]] = n}) = 1

\* The place of a node in the enumeration order.
Position(n) == CHOOSE i \in DOMAIN nodes : nodes[i] = n

Returned(f) == pc = "done" /\ op = f

(***************************************************************************)
(* C1: when connectedComponents returns, the returned components partition *)
(* the node set (every node in exactly one component, exactly once) and    *)
(* two nodes share a component exactly when a path that ignores edge       *)
(* direction joins them.                                                   *)
(***************************************************************************)
C1_WeakPartition ==
  Returned("connectedComponents") =>
    /\ error = "none"
    /\ IsPartition(result)
    /\ \A i \in DOMAIN result : SeqToSet(result[i]) = WeakClass(result[i][1])

\* A mixed graph with two components, one of them joined only by a directed
\* edge that enters the node enumerated first.
C1_Witness ==
  /\ Returned("connectedComponents")
  /\ type = "mixed"
  /\ Len(result) = 2
  /\ \E e \in EdgeSet : ~e.undirected /\ Position(e.target) < Position(e.source)
  /\ \A e \in EdgeSet : ~e.undirected /\ Position(e.target) <= Position(e.source)

(***************************************************************************)
(* C2: when stronglyConnectedComponents returns on a graph that is not of  *)
(* undirected type, the returned components partition the node set and     *)
(* each is a maximal set of nodes mutually reachable along outbound edges. *)
(***************************************************************************)
C2_StrongPartition ==
  (Returned("stronglyConnectedComponents") /\ type # "undirected") =>
    /\ error = "none"
    /\ IsPartition(result)
    /\ \A i \in DOMAIN result : SeqToSet(result[i]) = StrongClass(result[i][1])

\* A graph with a component of two nodes or more and an edge that leaves it.
C2_Witness ==
  /\ Returned("stronglyConnectedComponents")
  /\ type # "undirected"
  /\ Len(result) >= 2
  /\ \E i \in DOMAIN result :
       /\ Len(result[i]) >= 2
       /\ \E e \in EdgeSet : e.source \in SeqToSet(result[i])
                             /\ e.target \notin SeqToSet(result[i])

(***************************************************************************)
(* C3, as claimed: for every graph, largestConnectedComponent returns a    *)
(* weak component of the graph, no smaller than any other, and the first   *)
(* in enumeration order among those of the largest size.                   *)
(***************************************************************************)
IsLargestWeakComponent(list) ==
  /\ list # <<>>
  /\ Cardinality(SeqToSet(list)) = Len(list)
  /\ SeqToSet(list) = WeakClass(list[1])
  /\ \A n \in NodeSet :
       /\ Cardinality(WeakClass(n)) <= Len(list)
       /\ Cardinality(WeakClass(n)) = Len(list) =>
            \E m \in SeqToSet(list) : Position(m) <= Position(n)

C3_AsClaimed ==
  Returned("largestConnectedComponent") => IsLargestWeakComponent(result)

(***************************************************************************)
(* C3, amended: for every graph with at least one node,                    *)
(* largestConnectedComponent returns a weak component of the graph, no     *)
(* smaller than any other, and the first in enumeration order among those  *)
(* of the largest size; for the graph without nodes, which has no          *)
(* component, it returns the empty list.                                   *)
(***************************************************************************)
C3_Largest ==
  Returned("largestConnectedComponent") =>
    /\ error = "none"
    /\ IF order = 0 THEN result = <<>> ELSE IsLargestWeakComponent(result)

\* Two components tie for the largest size and the first one is returned.
C3_Witness ==
  /\ Returned("largestConnectedComponent")
  /\ result # <<>>
  /\ \E n \in NodeSet : /\ n \notin SeqToSet(result)
                        /\ Cardinality(WeakClass(n)) = Len(result)

(***************************************************************************)
(* C4, as claimed: stronglyConnectedComponents on a graph of undirected    *)
(* type, whatever its number of nodes and edges, raises an error and       *)
(* returns nothing.                                                        *)
(***************************************************************************)
C4_UndirectedRaises ==
  (Returned("stronglyConnectedComponents") /\ type = "undirected") =>
    error = "undirected"

(***************************************************************************)
(* C5, as claimed: after cropToLargestConnectedComponent the nodes of the  *)
(* graph are exactly the nodes largestConnectedComponent returned, and     *)
(* connectedComponents on the cropped graph returns exactly one component, *)
(* which holds all the remaining nodes.                                    *)
(***************************************************************************)
CropKeepsComponent ==
  Returned("cropToLargestConnectedComponent") =>
    /\ NodeSet = SeqToSet(largestComponent)
    /\ Len(nodes) = Len(largestComponent)
    /\ \A e \in EdgeSet : e.source \in NodeSet /\ e.target \in NodeSet

C5_AsClaimed ==
  /\ CropKeepsComponent
  /\ (Returned("connectedComponents") /\ cropped) =>
       Len(result) = 1 /\ SeqToSet(result[1]) = NodeSet

(***************************************************************************)
(* C5, amended: after cropToLargestConnectedComponent the nodes of the     *)
(* graph are exactly the nodes largestConnectedComponent returned, and,    *)
(* when the graph had at least one node, connectedComponents on the        *)
(* cropped graph returns exactly one component, which holds all the        *)
(* remaining nodes; the graph without nodes stays without nodes and        *)
(* connectedComponents returns no component for it.                        *)
(***************************************************************************)
C5_Crop ==
  /\ CropKeepsComponent
  /\ (Returned("connectedComponents") /\ cropped) =>
       IF order = 0 THEN result = <<>>
       ELSE Len(result) = 1 /\ SeqToSet(result[1]) = NodeSet

\* The crop dropped the node enumerated first and kept two nodes, which the
\* enumeration that follows returns as one component.
C5_Witness ==
  /\ Returned("connectedComponents")
  /\ cropped
  /\ order = 2
  /\ nodes[1] # Keys[1]
  /\ Len(result) = 1

(***************************************************************************)
(* C6: the graph largestConnectedComponentSubgraph returns has exactly the *)
(* nodes of the largest weak component and no dangling edge: an edge of    *)
(* the source graph whose source is in the component has its target there  *)
(* too, every copied edge has both endpoints in the new graph, and every   *)
(* edge with both endpoints in the component is copied, once, with its key *)
(* and directedness.                                                       *)
(***************************************************************************)
C6_Subgraph ==
  Returned("largestConnectedComponentSubgraph") =>
    /\ error = "none"
    /\ subNodes = largestComponent
    /\ order > 0 => IsLargestWeakComponent(subNodes)
    /\ order = 0 => subNodes = <<>>
    /\ \A e \in EdgeSet : e.source \in SeqToSet(subNodes) => e.target \in SeqToSet(subNodes)
    /\ \A e \in SeqToSet(subEdges) :
         e.source \in SeqToSet(subNodes) /\ e.target \in SeqToSet(subNodes)
    /\ SeqToSet(subEdges) =
         {e \in EdgeSet : e.source \in SeqToSet(subNodes) /\ e.target \in SeqToSet(subNodes)}
    /\ Cardinality(SeqToSet(subEdges)) = Len(subEdges)

\* A mixed graph whose largest component has a directed and an undirected
\* edge, both copied, and which has an edge outside the component, not copied.
C6_Witness ==
  /\ Returned("largestConnectedComponentSubgraph")
  /\ error = "none"
  /\ \E e \in SeqToSet(subEdges) : e.undirected
  /\ \E e \in SeqToSet(subEdges) : ~e.undirected
  /\ \E e \in EdgeSet : e \notin SeqToSet(subEdges)

(***************************************************************************)
(* C7, as claimed: on every graph with at least one node and no edge, both *)
(* connectedComponents and stronglyConnectedComponents return one          *)
(* component per node, holding that node, in enumeration order.            *)
(***************************************************************************)
IsSingletonPartition(list) ==
  /\ Len(list) = order
  /\ \A i \in DOMAIN list : list[i] = <<nodes[i]>>

C7_AsClaimed ==
  (pc = "done" /\ op \in {"connectedComponents", "stronglyConnectedComponents"}
     /\ order >= 1 /\ size = 0) =>
    error = "none" /\ IsSingletonPartition(result)

(***************************************************************************)
(* C7, amended: on every graph with at least one node and no edge,         *)
(* connectedComponents returns one component per node, holding that node,  *)
(* in enumeration order, and so does stronglyConnectedComponents unless    *)
(* the graph is of undirected type, where it raises an error instead.      *)
(***************************************************************************)
C7_Singletons ==
  (pc = "done" /\ op \in {"connectedComponents", "stronglyConnectedComponents"}
     /\ order >= 1 /\ size = 0) =>
    IF op = "stronglyConnectedComponents" /\ type = "undirected"
      THEN error = "undirected" /\ result = <<>>
      ELSE error = "none" /\ IsSingletonPartition(result)

\* stronglyConnectedComponents returned on a graph with several nodes and
\* no edge.
C7_Witness ==
  /\ Returned("stronglyConnectedComponents")
  /\ type # "undirected"
  /\ order >= 2
  /\ size = 0
  /\ Len(result) = order

(***************************************************************************)
(* C8: stronglyConnectedComponents returns its components in reverse       *)
(* topological order: for every edge u -> v whose endpoints are in         *)
(* different returned components, the component of v comes earlier in the  *)
(* list than the component of u.                                           *)
(***************************************************************************)
C8_ReverseTopological ==
  (Returned("stronglyConnectedComponents") /\ error = "none") =>
    \A u, v \in NodeSet :
      Arc(u, v) =>
        \A i, j \in DOMAIN result :
          (u \in SeqToSet(result[i]) /\ v \in SeqToSet(result[j]) /\ i # j) => j < i

\* Several components, joined by an edge that goes against the enumeration
\* order and by one that goes along it.
C8_Witness ==
  /\ Returned("stronglyConnectedComponents")
  /\ error = "none"
  /\ Len(result) >= 2
  /\ \E u, v \in NodeSet :
       /\ Arc(u, v) /\ ~Arc(v, u) /\ Position(u) > Position(v)
       /\ \E i, j \in DOMAIN result :
            u \in SeqToSet(result[i]) /\ v \in SeqToSet(result[j]) /\ i # j
  /\ \E u, v \in NodeSet :
       /\ Arc(u, v) /\ Position(u) < Position(v)
       /\ \E i, j \in DOMAIN result :
            u \in SeqToSet(result[i]) /\ v \in SeqToSet(result[j]) /\ i # j

(***************************************************************************)
(* C9: in largestConnectedComponent, each time a component is complete,    *)
(* if the best component so far is strictly larger than the node count     *)
(* minus the number of nodes seen, the traversal halts at once (nothing    *)
(* more is popped, marked seen or taken as a root) and the best component  *)
(* is returned; otherwise it goes on with the next unseen node in          *)
(* enumeration order.                                                      *)
(***************************************************************************)
Best == IF Len(component) > Len(largestComponent) THEN component ELSE largestComponent

\* The unseen nodes, in enumeration order.
Unseen == SelectSeq(nodes, LAMBDA n : n \notin seen)

C9_Step ==
  /\ (pc = "lcc_while" /\ stack = <<>>) =>
       IF Len(Best) > order - Cardinality(seen)
         THEN /\ pc' = "lcc_return"
              /\ largestComponent' = Best
              /\ seen' = seen /\ stack' = stack /\ todo' = todo
         ELSE /\ pc' = "lcc_node"
              /\ largestComponent' = Best
              /\ seen' = seen /\ stack' = stack
  /\ (pc = "lcc_node" /\ pc' = "lcc_while") =>
       /\ Len(largestComponent) <= order - Cardinality(seen)
       /\ stack' = <<Unseen[1]>>
       /\ seen' = seen
  /\ (pc = "lcc_return" /\ op = "largestConnectedComponent") =>
       /\ pc' = "done"
       /\ result' = largestComponent
       /\ seen' = seen /\ stack' = stack

C9_EarlyExit ==
  /\ [][C9_Step]_vars
  /\ [](pc = "lcc_return" /\ order > 0 =>
          Len(largestComponent) > order - Cardinality(seen))

\* The traversal halted with nodes it never visited.
C9_Witness ==
  /\ Returned("largestConnectedComponent")
  /\ Cardinality(seen) < order
  /\ result # <<>>

(***************************************************************************)
(* C10: during stronglyConnectedComponents on a graph that is not of       *)
(* undirected type and has an edge, DFS is entered exactly once for every  *)
(* node: a preorder index is set once and never changed, and a node that   *)
(* holds one is never visited again, as a neighbor or as a root of the     *)
(* outer loop, which tests the assigned set.                               *)
(***************************************************************************)
InStrong == pc \in {"scc_for", "scc_dfs"}

Entered(n) ==
  /\ Len(frames') = Len(frames) + 1
  /\ frames'[Len(frames')].node = n

C10_Step ==
  InStrong =>
    /\ \A n \in DOMAIN preorder : n \in DOMAIN preorder' /\ preorder'[n] = preorder[n]
    /\ \A n \in NodeSet : Entered(n) => n \notin DOMAIN preorder /\ n \in DOMAIN preorder'
    /\ count' - count = Cardinality(DOMAIN preorder' \ DOMAIN preorder)

C10_VisitedOnce ==
  /\ [][C10_Step]_vars
  /\ [](InStrong => count = Cardinality(DOMAIN preorder) + 1)
  /\ [](pc = "scc_for" => DOMAIN preorder = assigned)
  /\ []((Returned("stronglyConnectedComponents") /\ error = "none" /\ size > 0) =>
          DOMAIN preorder = NodeSet /\ count = order + 1)

\* Two edges from different nodes point to a node that the outer loop
\* reaches after it was visited.
C10_Witness ==
  /\ Returned("stronglyConnectedComponents")
  /\ error = "none"
  /\ size > 0
  /\ \E n \in DOMAIN preorder :
       /\ preorder[n] > Position(n)
       /\ \E e1, e2 \in EdgeSet :
            e1.target = n /\ e2.target = n /\ e1.source # e2.source
              /\ e1.source # n /\ e2.source # n
====
